---- MODULE Spec2Model ----
(***************************************************************************)
(* Model of src/itbit.js: the itBit REST client.                           *)
(*                                                                         *)
(* State: the client instances, the module-level `self` reference, the     *)
(* wall clock, the endpoint calls made so far (with the request each has   *)
(* in flight) and the arguments of the most recent callback invocation.    *)
(* The network (the `request` library and the server behind it) is the     *)
(* environment: it answers every request in flight, in any order, with a   *)
(* transport outcome (err, res, body).                                     *)
(***************************************************************************)
EXTENDS Integers, Sequences, FiniteSets, TLC

VARIABLES inst, self, clock, calls, last

vars == <<inst, self, clock, calls, last>>

(***************************************************************************)
(* Bounds of the model.                                                    *)
(***************************************************************************)
MaxCalls == 2
StartTime == 1000
MaxInstances == 2
MaxTicks == 1

(***************************************************************************)
(* JavaScript values.  Every value is a record tagged with its type, so    *)
(* that values of different types can be compared.                         *)
(***************************************************************************)
Undef == [t |-> "undefined"]
Null == [t |-> "null"]
Str(s) == [t |-> "string", s |-> s]
Num(n) == [t |-> "number", n |-> n]
Bool(b) == [t |-> "boolean", b |-> b]
\* An object: its own enumerable properties in insertion order.
Obj(f) == [t |-> "object", f |-> f]
Arr(a) == [t |-> "array", a |-> a]
\* A string holding markup, as its sequence of tags and text runs.
Markup(toks) == [t |-> "markup", toks |-> toks]
Tag(s) == [tag |-> TRUE, s |-> s]
Text(s) == [tag |-> FALSE, s |-> s]

\* !!v
Truthy(v) ==
    CASE v.t = "undefined" -> FALSE
      [] v.t = "null" -> FALSE
      [] v.t = "string" -> v.s /= ""
      [] v.t = "number" -> v.n /= 0
      [] v.t = "boolean" -> v.b
      [] v.t = "markup" -> Len(v.toks) > 0
      [] OTHER -> TRUE

\* _.isObject(v): type === 'function' || type === 'object' && !!obj
isObject(v) == v.t \in {"object", "array"}

\* o.k for an object o; undefined when o has no such property.
Get(o, k) ==
    IF o.t = "object" /\ \E n \in 1..Len(o.f) : o.f[n][1] = k
    THEN o.f[CHOOSE n \in 1..Len(o.f) : o.f[n][1] = k][2]
    ELSE Undef

\* _.isEmpty(v) for an object, null or undefined.
isEmpty(v) == IF v.t = "object" THEN Len(v.f) = 0 ELSE TRUE

\* v.toString() / String(v) of a primitive.
toString(v) ==
    CASE v.t = "string" -> v.s
      [] v.t = "number" -> ToString(v.n)
      [] v.t = "boolean" -> IF v.b THEN "true" ELSE "false"
      [] v.t = "null" -> "null"
      [] OTHER -> "undefined"

\* v.toString() throws a TypeError on null and undefined.
toStringThrows(v) == v.t \in {"null", "undefined"}

RECURSIVE jsonMembers(_, _)
\* JSON.stringify of a primitive property value.
jsonValue(v) ==
    CASE v.t = "string" -> "\"" \o v.s \o "\""
      [] v.t = "number" -> ToString(v.n)
      [] v.t = "boolean" -> IF v.b THEN "true" ELSE "false"
      [] OTHER -> "null"
\* The members of JSON.stringify(object): properties holding undefined are left out.
jsonMembers(f, first) ==
    IF Len(f) = 0 THEN ""
    ELSE IF Head(f)[2].t = "undefined" THEN jsonMembers(Tail(f), first)
    ELSE (IF first THEN "" ELSE ",") \o "\"" \o Head(f)[1] \o "\":"
         \o jsonValue(Head(f)[2]) \o jsonMembers(Tail(f), FALSE)
\* JSON.stringify(v) for an object of primitives (undefined for undefined).
JSONstringify(v) ==
    IF v.t = "object" THEN "{" \o jsonMembers(v.f, TRUE) \o "}"
    ELSE IF v.t = "undefined" THEN "undefined"
    ELSE jsonValue(v)

RECURSIVE qsMembers(_, _)
\* querystring's stringifyPrimitive: strings, finite numbers and booleans, else ''.
qsValue(v) ==
    IF v.t \in {"string", "number", "boolean"} THEN toString(v) ELSE ""
qsMembers(f, first) ==
    IF Len(f) = 0 THEN ""
    ELSE (IF first THEN "" ELSE "&") \o Head(f)[1] \o "=" \o qsValue(Head(f)[2])
         \o qsMembers(Tail(f), FALSE)
\* querystring.stringify(v): '' for anything that is not an object.
querystringStringify(v) == IF v.t = "object" THEN qsMembers(v.f, TRUE) ELSE ""

RECURSIVE bodyText(_)
\* cheerio.load(body); $('body').text(): the text runs of the markup, tags dropped.
bodyText(toks) ==
    IF Len(toks) = 0 THEN ""
    ELSE (IF Head(toks).tag THEN "" ELSE Head(toks).s) \o bodyText(Tail(toks))


(***************************************************************************)
(* The client instance.                                                    *)
(***************************************************************************)
\* settings.x || d
OrDefault(v, d) == IF Truthy(v) THEN v ELSE d

\* The instance with the timeout taken from the settings as it is.
ItBitNoDefaultTimeout(settings, now) ==
    [key |-> settings.key,
     secret |-> settings.secret,
     serverV1 |-> OrDefault(settings.serverV1, Str("https://api.itbit.com/v1")),
     serverV2 |-> OrDefault(settings.serverV2, Str("https://www.itbit.com/api/v2")),
     timeout |-> settings.timeout,
     nonce |-> now]
\* new ItBit(settings) at wall-clock time now.
ItBit(settings, now) ==
    [key |-> settings.key,
     secret |-> settings.secret,
     serverV1 |-> OrDefault(settings.serverV1, Str("https://api.itbit.com/v1")),
     serverV2 |-> OrDefault(settings.serverV2, Str("https://www.itbit.com/api/v2")),
     timeout |-> OrDefault(settings.timeout, Num(20000)),
     nonce |-> now]

\* The settings a client is constructed with.
NoSettings == [key |-> Undef, secret |-> Undef, serverV1 |-> Undef,
               serverV2 |-> Undef, timeout |-> Undef]
Settings ==
    {[NoSettings EXCEPT !.key = Str("key1"), !.secret = Str("secret1")],
     [NoSettings EXCEPT !.key = Str("key1"), !.secret = Str("secret1"),
                        !.timeout = Num(5000)],
     [NoSettings EXCEPT !.key = Str("key1")],
     [NoSettings EXCEPT !.secret = Str("secret1")]}

(***************************************************************************)
(* Errors and callbacks.                                                   *)
(***************************************************************************)
\* new VError(cause, template, ...info): kind names the message template.
VError(kind, desc, cause, info) ==
    [t |-> "error", kind |-> kind, name |-> Str("VError"), desc |-> desc,
     cause |-> cause, info |-> info]

\* No request (a call that has nothing in flight).
NoOptions == [method |-> "none"]

\* callback(error, result) of call c, answering the transport outcome o.
Callback(c, o, error, result) ==
    [call |-> c, outcome |-> o, error |-> error, result |-> result]

NoCallback == [call |-> 0]
\* The outcome recorded for a callback made before any network activity.
NoOutcome == [err |-> Undef, status |-> Undef, body |-> Undef]

\* A call record: the instance the operation was invoked on, the operation,
\* whether it is a private one, where the call stands, the key it signed with
\* and the nonce it took, the requests it dispatched, the callbacks it made,
\* and the request it has in flight with the description the response
\* callback closes over.
Call(i, op, private, pc, key, nonce, sent, cbs, options, desc) ==
    [via |-> i, op |-> op, private |-> private, pc |-> pc, key |-> key,
     nonce |-> nonce, sent |-> sent, cbs |-> cbs, options |-> options,
     desc |-> desc]

\* A call that has nothing in flight any more: the request is gone.
Finished(i, private, pc, key, nonce, sent, cbs) ==
    Call(i, "", private, pc, key, nonce, sent, cbs, NoOptions, NoOptions)

(***************************************************************************)
(* executeRequest                                                          *)
(***************************************************************************)
\* The description with the data of a request left out.
requestDescNoData(options) ==
    IF options.method = "GET"
    THEN [method |-> options.method, uri |-> options.uri]
    ELSE [method |-> options.method, uri |-> options.uri,
          nonce |-> toString(options.headers.XAuthNonce),
          data |-> ""]
\* The description of the request that every error message embeds.
requestDesc(options) ==
    IF options.method = "GET"
    THEN [method |-> options.method, uri |-> options.uri]
    ELSE [method |-> options.method, uri |-> options.uri,
          nonce |-> toString(options.headers.XAuthNonce),
          data |-> JSONstringify(options.json)]

\* Only 200 taken for a good status.
okStatusOnly200(status) == status = Num(200)
\* res.statusCode === 200 || res.statusCode === 201 || res.statusCode === 202
okStatus(status) == status = Num(200) \/ status = Num(201) \/ status = Num(202)

\* The error for a body that is not an object: the text of its markup, if any.
unparseable(desc, err, body) ==
    LET responseBody == bodyText(body.toks)
    IN  IF responseBody /= ""
        THEN VError("UnparseableHTML", desc, err, <<Str(responseBody)>>)
        ELSE VError("UnparseableBody", desc, err, <<>>)

\* The error for a body with a code, its name left as it was.
codeErrorUnnamed(desc, body) ==
    VError("ApiError", desc, Null, <<Get(body, "code"), Get(body, "description")>>)
\* The error for a body with a code: named after the code.
codeError(desc, body) ==
    [VError("ApiError", desc, Null, <<Get(body, "code"), Get(body, "description")>>)
     EXCEPT !.name = Get(body, "code")]

\* The error for a body with an error: named after it.
errorError(desc, body) ==
    [VError("ApiError", desc, Null, <<Get(body, "error")>>)
     EXCEPT !.name = Get(body, "error")]

\* The error for a bad status: named after the status code.
statusError(desc, status, body) ==
    [VError("HttpStatus", desc, Null, <<status, body>>) EXCEPT !.name = status]

\* The response callback with the status looked at before the body's fields.
classifyStatusFirst(desc, err, status, body) ==
    IF Truthy(err) THEN VError("Transport", desc, err, <<>>)
    ELSE IF ~Truthy(body) THEN VError("EmptyResponse", desc, Null, <<>>)
    ELSE IF ~isObject(body) THEN unparseable(desc, err, body)
    ELSE IF ~okStatus(status) THEN statusError(desc, status, body)
    ELSE IF Truthy(body) /\ Truthy(Get(body, "code")) THEN codeError(desc, body)
    ELSE IF Truthy(body) /\ Truthy(Get(body, "error")) THEN errorError(desc, body)
    ELSE Null
\* The error the response callback computes from (err, res, body); null for none.
classify(desc, err, status, body) ==
    IF Truthy(err) THEN VError("Transport", desc, err, <<>>)
    ELSE IF ~Truthy(body) THEN VError("EmptyResponse", desc, Null, <<>>)
    ELSE IF ~isObject(body) THEN unparseable(desc, err, body)
    ELSE IF Truthy(body) /\ Truthy(Get(body, "code")) THEN codeError(desc, body)
    ELSE IF Truthy(body) /\ Truthy(Get(body, "error")) THEN errorError(desc, body)
    ELSE IF ~okStatus(status) THEN statusError(desc, status, body)
    ELSE Null

\* The body handed over on success only.
callbackResultOnSuccess(error, body) == IF error = Null THEN body ELSE Undef
\* The body handed over only when it is an object that is no array.
callbackResultMapping(error, body) == IF body.t = "object" THEN body ELSE Undef
\* callback(error, body): the result handed over with the error.
callbackResult(error, body) == body

\* executeRequest(options, callback): hand the request to the network.
executeRequest(i, op, private, options, key, nonce) ==
    /\ calls' = Append(calls, Call(i, op, private, "inflight", key, nonce, 1, 0,
                                   options, requestDesc(options)))
    /\ UNCHANGED last

\* The body `request` puts on the wire for the options it is given: with
\* json set to a value that is no boolean, the JSON text of that value, for
\* every method; the options carry no body of their own.
wireBody(options) == JSONstringify(options.json)

(***************************************************************************)
(* makePublicRequest and makePrivateRequest                                *)
(***************************************************************************)
\* The headers of a public request, with the nonce of a counter added.
publicHeadersWithNonce ==
    [UserAgent |-> Str("itBit node.js client"),
     ContentType |-> Str("application/x-www-form-urlencoded"),
     XAuthNonce |-> Num(StartTime)]
\* The headers of a public request.
publicHeaders ==
    [UserAgent |-> Str("itBit node.js client"),
     ContentType |-> Str("application/x-www-form-urlencoded")]

makePublicRequest(i, op, version, path0, args) ==
    LET params == querystringStringify(args)
        path == IF params /= "" THEN path0 \o "?" \o params ELSE path0
        me == inst[self]
    IN  IF version \notin {"v1", "v2"}
        THEN /\ calls' = Append(calls, Finished(i, FALSE, "done", Undef, Undef, 0, 1))
             /\ last' = Callback(Len(calls) + 1, NoOutcome,
                                 VError("BadVersion", NoOptions, Null, <<Str(version)>>),
                                 Undef)
             /\ UNCHANGED <<inst, self, clock>>
        ELSE LET server == IF version = "v1" THEN me.serverV1 ELSE me.serverV2
                 options == [method |-> "GET",
                             uri |-> server.s \o path,
                             headers |-> publicHeaders,
                             json |-> args]
             IN  /\ executeRequest(i, op, FALSE, options, Undef, Undef)
                 /\ UNCHANGED <<inst, self, clock>>

\* crypto.createHash('sha256').update(m).digest()
sha256(m) == [alg |-> "sha256", of |-> m]
\* crypto.createHmac('sha512', secret).update(data).digest('base64')
hmacSha512Base64(secret, data) == [alg |-> "hmac-sha512/base64", key |-> secret, of |-> data]

\* The counter left where it was.
nonceAfterStuck(n) == n
\* The counter advanced twice.
nonceAfterTwice(n) == n + 2
\* self.nonce++ : the counter after the nonce has been taken.
nonceAfter(n) == n + 1

\* The post data with DELETE sharing the branch of POST and PUT.
postDataWithDelete(method, args) ==
    IF method = "POST" \/ method = "PUT" \/ method = "DELETE"
    THEN JSONstringify(args) ELSE ""
\* postData: the body that enters the signed message.
postData(method, args) ==
    IF method = "POST" \/ method = "PUT" THEN JSONstringify(args) ELSE ""

\* uri: the query string is appended on the else-if branch of the post data.
privateUri(uri0, method, args) ==
    IF ~(method = "POST" \/ method = "PUT") /\ method = "GET" /\ ~isEmpty(args)
    THEN uri0 \o "?" \o querystringStringify(args) ELSE uri0

makePrivateRequest(i, op, method, path, args) ==
    LET me == inst[self] IN
    IF ~Truthy(me.key) \/ ~Truthy(me.secret)
    THEN /\ calls' = Append(calls, Finished(i, TRUE, "done", Undef, Undef, 0, 1))
         /\ last' = Callback(Len(calls) + 1, NoOutcome,
                             VError("CredentialsMissing", NoOptions, Null, <<>>),
                             Undef)
         /\ UNCHANGED <<inst, self, clock>>
    ELSE LET uri0 == me.serverV1.s \o path
             uri == privateUri(uri0, method, args)
             timestamp == clock
             nonce == me.nonce
             \* nonce + JSON.stringify([...]): the decimal nonce, then the array
             message == <<ToString(nonce),
                          <<method, uri, postData(method, args), ToString(nonce),
                            ToString(timestamp)>>>>
             hashBuffer == sha256(message)
             bufferToHash == <<uri, hashBuffer>>
             signature == hmacSha512Base64(me.secret, bufferToHash)
             options == [method |-> method,
                         uri |-> uri,
                         headers |-> [UserAgent |-> Str("itBit node.js client"),
                                      Authorization |-> [key |-> me.key, sig |-> signature],
                                      XAuthTimestamp |-> Num(timestamp),
                                      XAuthNonce |-> Num(nonce)],
                         json |-> args,
                         timeout |-> me.timeout]
         IN  /\ inst' = [inst EXCEPT ![self].nonce = nonceAfter(@)]
             /\ executeRequest(i, op, TRUE, options, me.key, Num(nonce))
             /\ UNCHANGED <<self, clock>>

(***************************************************************************)
(* The endpoint wrappers.  i is the instance the method is invoked on.     *)
(***************************************************************************)
\* The argument values the wrappers are called with.
Tickers == {"XBTUSD"}
Wallets == {"w1"}
Orders == {"o1"}
Sinces == {Undef, Num(5)}
Prices == {Null, Num(650)}
Instruments == {Str("XBTUSD"), Str("ETHEUR"), Str("XB")}
NoParams == Obj(<<>>)
PageParams == Obj(<<<<"page", Num(1)>>>>)

\* s.slice(1, 4)
slice14(s) == SubSeq(s, 2, IF Len(s) < 4 THEN Len(s) ELSE 4)
\* s.slice(0, 3)
slice03(s) == SubSeq(s, 1, IF Len(s) < 3 THEN Len(s) ELSE 3)

PublicOps == {"getOrderBook", "getTicker", "getTrades"}
PrivateOps == {"getWallets", "getWallet", "getOrders", "getOrder", "addOrder",
               "cancelOrder", "getWalletTrades", "getFundingHistory",
               "cryptocurrency_withdrawals", "cryptocurrency_deposits"}

\* An operation that throws before it reaches the request pipeline.
Throw(i, op) ==
    /\ calls' = Append(calls, Call(i, op, op \in PrivateOps, "threw", Undef, Undef,
                                   0, 0, NoOptions, NoOptions))
    /\ UNCHANGED <<inst, self, clock, last>>

getOrderBook(i, tickerSymbol) ==
    /\ Len(calls) < MaxCalls
    /\ makePublicRequest(i, "getOrderBook", "v1",
                         "/markets/" \o tickerSymbol \o "/order_book", Obj(<<>>))

getTicker(i, tickerSymbol) ==
    /\ Len(calls) < MaxCalls
    /\ makePublicRequest(i, "getTicker", "v1",
                         "/markets/" \o tickerSymbol \o "/ticker", Obj(<<>>))

getTrades(i, tickerSymbol, since) ==
    /\ Len(calls) < MaxCalls
    /\ makePublicRequest(i, "getTrades", "v1",
                         "/markets/" \o tickerSymbol \o "/trades?since="
                             \o toString(OrDefault(since, Num(0))), Obj(<<>>))

getWallets(i, userId) ==
    /\ Len(calls) < MaxCalls
    /\ makePrivateRequest(i, "getWallets", "GET", "/wallets",
                          Obj(<<<<"userId", userId>>>>))

getWallet(i, walletId) ==
    /\ Len(calls) < MaxCalls
    /\ makePrivateRequest(i, "getWallet", "GET", "/wallets/" \o walletId, Obj(<<>>))

getOrders(i, walletId, instrument, status) ==
    /\ Len(calls) < MaxCalls
    /\ makePrivateRequest(i, "getOrders", "GET", "/wallets/" \o walletId \o "/orders",
                          Obj(<<<<"instrument", instrument>>, <<"status", status>>>>))

getOrder(i, walletId, id) ==
    /\ Len(calls) < MaxCalls
    /\ makePrivateRequest(i, "getOrder", "GET",
                          "/wallets/" \o walletId \o "/orders/" \o id, Obj(<<>>))

addOrder(i, walletId, side, type, amount, price, instrument, metadata, clientOrderIdentifier) ==
    /\ Len(calls) < MaxCalls
    /\ IF toStringThrows(amount) \/ toStringThrows(price)
       THEN Throw(i, "addOrder")
       ELSE LET args0 == <<<<"side", side>>, <<"type", type>>,
                           <<"currency", Str(slice03(instrument.s))>>,
                           <<"amount", Str(toString(amount))>>,
                           <<"price", Str(toString(price))>>,
                           <<"instrument", instrument>>>>
                args1 == IF Truthy(metadata)
                         THEN Append(args0, <<"metadata", metadata>>) ELSE args0
                args2 == IF Truthy(clientOrderIdentifier)
                         THEN Append(args1, <<"clientOrderIdentifier",
                                              clientOrderIdentifier>>)
                         ELSE args1
            IN  makePrivateRequest(i, "addOrder", "POST",
                                   "/wallets/" \o walletId \o "/orders", Obj(args2))

cancelOrder(i, walletId, id) ==
    /\ Len(calls) < MaxCalls
    /\ makePrivateRequest(i, "cancelOrder", "DELETE",
                          "/wallets/" \o walletId \o "/orders/" \o id, Obj(<<>>))

getWalletTrades(i, walletId, params) ==
    /\ Len(calls) < MaxCalls
    /\ makePrivateRequest(i, "getWalletTrades", "GET",
                          "/wallets/" \o walletId \o "/trades", params)

getFundingHistory(i, walletId, params) ==
    /\ Len(calls) < MaxCalls
    /\ makePrivateRequest(i, "getFundingHistory", "GET",
                          "/wallets/" \o walletId \o "/funding_history", params)

cryptocurrency_withdrawals(i, walletId, currency, amount, address) ==
    /\ Len(calls) < MaxCalls
    /\ makePrivateRequest(i, "cryptocurrency_withdrawals", "POST",
                          "/wallets/" \o walletId \o "/cryptocurrency_withdrawals",
                          Obj(<<<<"currency", currency>>, <<"amount", amount>>,
                                <<"address", address>>>>))

cryptocurrency_deposits(i, walletId, currency) ==
    /\ Len(calls) < MaxCalls
    /\ makePrivateRequest(i, "cryptocurrency_deposits", "POST",
                          "/wallets/" \o walletId \o "/cryptocurrency_deposits",
                          Obj(<<<<"currency", currency>>>>))

(***************************************************************************)
(* The environment: the network answering a request.                       *)
(***************************************************************************)
\* The response bodies as `request` hands them over: '' for an empty response,
\* the decoded value when the text is JSON, the text itself otherwise.
BodyOk == Obj(<<<<"id", Str("abc123")>>, <<"status", Str("open")>>>>)
BodyCode == Obj(<<<<"code", Str("ERR001")>>, <<"description", Str("Invalid nonce")>>>>)
BodyCodeNum == Obj(<<<<"code", Num(10002)>>>>)
BodyCodeZero == Obj(<<<<"code", Num(0)>>, <<"description", Str("OK")>>>>)
BodyError == Obj(<<<<"error", Str("The itBit API is currently undergoing maintenance")>>>>)
BodyCodeError == Obj(<<<<"code", Str("ERR001")>>, <<"error", Str("failed")>>>>)
BodyList == Arr(<<BodyOk>>)
BodyHtml == Markup(<<Tag("<html>"), Tag("<body>"), Text("Service Unavailable"),
                     Tag("</body>"), Tag("</html>")>>)
BodyTags == Markup(<<Tag("<html>"), Tag("</html>")>>)
Bodies == {Str(""), Null, BodyOk, BodyCode, BodyCodeNum, BodyCodeZero, BodyError,
           BodyCodeError, BodyList, BodyHtml, BodyTags}
Statuses == {Num(200), Num(201), Num(202), Num(400), Num(500)}
TransportErrors == {[t |-> "error", kind |-> "ECONNRESET"]}

\* The transport outcomes (err, res, body): a failure has no response.
Outcomes ==
    {[err |-> e, status |-> Undef, body |-> Undef] : e \in TransportErrors}
    \cup {[err |-> Null, status |-> st, body |-> b] : st \in Statuses, b \in Bodies}

\* The description of the request issued last, as one shared by all callbacks.
closureDescShared(cs, c) == cs[Len(cs)].desc
\* requestDesc as the response callback of call c closes over it.
closureDesc(cs, c) == cs[c].desc

\* The callback of request(options, ...) for call c, with the outcome o.
Respond(c, o) ==
    /\ c \in 1..Len(calls)
    /\ calls[c].pc = "inflight"
    /\ LET error == classify(closureDesc(calls, c), o.err, o.status, o.body)
       IN  last' = Callback(c, o, error, callbackResult(error, o.body))
    /\ calls' = [calls EXCEPT ![c] = Finished(@.via, @.private, "done", @.key,
                                              @.nonce, @.sent, @.cbs + 1)]
    /\ UNCHANGED <<inst, self, clock>>

(***************************************************************************)
(* A process with one client instance, constructed at StartTime.  The      *)
(* clock is read at construction and by every private call; here the calls *)
(* all fall into the millisecond of the construction.                      *)
(***************************************************************************)
Init ==
    /\ clock = StartTime
    /\ \E settings \in Settings : inst = <<ItBit(settings, StartTime)>>
    /\ self = 1
    /\ calls = <<>>
    /\ last = NoCallback

\* A failure, an empty response, a success, an API error and a bad status.
SomeOutcomes ==
    {[err |-> e, status |-> Undef, body |-> Undef] : e \in TransportErrors}
    \cup {[err |-> Null, status |-> Num(200), body |-> b] :
             b \in {Str(""), BodyOk}}
    \cup {[err |-> Null, status |-> Num(400), body |-> BodyCode],
          [err |-> Null, status |-> Num(500), body |-> BodyOk]}

Instances == 1..Len(inst)

Next ==
    \/ \E i \in Instances, tk \in Tickers : getOrderBook(i, tk)
    \/ \E i \in Instances, tk \in Tickers : getTicker(i, tk)
    \/ \E i \in Instances, tk \in Tickers, since \in Sinces : getTrades(i, tk, since)
    \/ \E i \in Instances : getWallets(i, Str("u1"))
    \/ \E i \in Instances, w \in Wallets : getWallet(i, w)
    \/ \E i \in Instances, w \in Wallets : getOrders(i, w, Str("XBTUSD"), Str("open"))
    \/ \E i \in Instances, w \in Wallets, o \in Orders : getOrder(i, w, o)
    \/ \E i \in Instances, w \in Wallets, price \in Prices, instrument \in Instruments :
           addOrder(i, w, Str("buy"), Str("limit"), Num(1), price, instrument,
                    Undef, Undef)
    \/ \E i \in Instances, w \in Wallets, o \in Orders : cancelOrder(i, w, o)
    \/ \E i \in Instances, w \in Wallets : getWalletTrades(i, w, NoParams)
    \/ \E i \in Instances, w \in Wallets : getFundingHistory(i, w, PageParams)
    \/ \E i \in Instances, w \in Wallets :
           cryptocurrency_withdrawals(i, w, Str("XBT"), Num(1), Str("addr1"))
    \/ \E i \in Instances, w \in Wallets : cryptocurrency_deposits(i, w, Str("XBT"))
    \/ \E c \in 1..Len(calls), o \in SomeOutcomes : Respond(c, o)

Spec == Init /\ [][Next]_vars

(***************************************************************************)
(* The same process seen from the response side: a few operations, one of  *)
(* each request shape, answered with every transport outcome.              *)
(***************************************************************************)
NextResponses ==
    \/ \E i \in Instances, tk \in Tickers : getOrderBook(i, tk)
    \/ \E i \in Instances : getWallets(i, Str("u1"))
    \/ \E i \in Instances, w \in Wallets, price \in Prices :
           addOrder(i, w, Str("buy"), Str("limit"), Num(1), price, Str("XBTUSD"),
                    Undef, Undef)
    \/ \E i \in Instances, w \in Wallets, o \in Orders : cancelOrder(i, w, o)
    \/ \E c \in 1..Len(calls), o \in Outcomes : Respond(c, o)

SpecResponses == Init /\ [][NextResponses]_vars

(***************************************************************************)
(* A process that constructs further client instances while it makes its   *)
(* calls, with the wall clock advancing between the steps or standing      *)
(* still.  An operation is invoked on any instance constructed so far.     *)
(***************************************************************************)
\* The settings further instances are constructed with: the first key again,
\* a second key with its own server and timeout, and no credentials.
MultiSettings ==
    {[NoSettings EXCEPT !.key = Str("key1"), !.secret = Str("secret1")],
     [NoSettings EXCEPT !.key = Str("key2"), !.secret = Str("secret2"),
                        !.serverV1 = Str("https://beta.itbit.com/v1"),
                        !.timeout = Num(5000)],
     NoSettings}

\* new ItBit(settings): the instance is built and `self` is bound to it.
Construct(settings) ==
    /\ Len(inst) < MaxInstances
    /\ inst' = Append(inst, ItBit(settings, clock))
    /\ self' = Len(inst) + 1
    /\ UNCHANGED <<clock, calls, last>>

\* A millisecond passes on the wall clock (Date.getTime()).
Tick ==
    /\ clock < StartTime + MaxTicks
    /\ clock' = clock + 1
    /\ UNCHANGED <<inst, self, calls, last>>

NextMulti ==
    \/ \E settings \in MultiSettings : Construct(settings)
    \/ Tick
    \/ \E i \in Instances, tk \in Tickers : getOrderBook(i, tk)
    \/ \E i \in Instances, w \in Wallets : getWallet(i, w)
    \/ \E i \in Instances, w \in Wallets, o \in Orders : cancelOrder(i, w, o)
    \/ \E c \in 1..Len(calls), o \in SomeOutcomes : Respond(c, o)

SpecMulti == Init /\ [][NextMulti]_vars

(***************************************************************************)
(* Properties.                                                             *)
(***************************************************************************)
Indices == 1..Len(calls)
HasNonce(c) == calls[c].nonce /= Undef
InFlight(c) == calls[c].pc = "inflight"
CredentialsPresent == Truthy(inst[self].key) /\ Truthy(inst[self].secret)
\* The last callback answered a response of the network.
Responded == last.call > 0 /\ last.outcome /= NoOutcome
Failed == last.call > 0 /\ last.error /= Null

\* C1: the nonces of the private requests of one client instance are strictly
\* increasing in call order, so no two requests carry the same nonce, also
\* when a request is issued while earlier ones are still in flight; and the
\* nonce header of a request in flight is the nonce the call took.
C1_NoncesStrictlyIncreasing ==
    /\ \A a, b \in Indices :
           (a < b /\ HasNonce(a) /\ HasNonce(b)) => calls[a].nonce.n < calls[b].nonce.n
    /\ \A c \in Indices :
           (InFlight(c) /\ calls[c].private) =>
               /\ HasNonce(c)
               /\ calls[c].options.headers.XAuthNonce = calls[c].nonce

\* Two private requests in flight at once, each with its nonce.
C1_Witness ==
    \E a, b \in Indices :
        /\ a < b
        /\ InFlight(a) /\ InFlight(b)
        /\ HasNonce(a) /\ HasNonce(b)

\* C2: every private operation called while the key or the secret is missing
\* has dispatched no request and has delivered a CredentialsMissing error to
\* its callback.
C2_CredentialsMissingDelivered ==
    ~CredentialsPresent =>
        \A c \in Indices :
            calls[c].private =>
                /\ calls[c].sent = 0
                /\ calls[c].cbs = 1
                /\ (last.call = c => /\ last.error /= Null
                                     /\ last.error.kind = "CredentialsMissing")

\* A private call has just been made and did not throw.
NewPrivateCall ==
    /\ Len(calls') = Len(calls) + 1
    /\ calls'[Len(calls')].private
    /\ calls'[Len(calls')].pc /= "threw"

\* C3 as stated: every private call advances the nonce counter by exactly one,
\* whatever its outcome.
C3_EveryPrivateCallAdvances ==
    [][NewPrivateCall => inst'[self].nonce = inst[self].nonce + 1]_vars

\* C3 as amended: a private call that dispatches a request takes the counter's
\* value as its nonce and advances the counter by exactly one; nothing else
\* moves the counter: not a call that dispatches nothing (rejected for missing
\* credentials), not a public call, and not a response, failed or not; so the
\* counter stays above every nonce handed out.
C3_DispatchAdvancesByOne ==
    [][/\ (Len(calls') = Len(calls) + 1 /\ calls'[Len(calls')].private
              /\ calls'[Len(calls')].sent = 1) =>
              /\ inst'[self].nonce = inst[self].nonce + 1
              /\ calls'[Len(calls')].nonce = Num(inst[self].nonce)
       /\ ~(Len(calls') = Len(calls) + 1 /\ calls'[Len(calls')].private
              /\ calls'[Len(calls')].sent = 1) =>
              inst'[self].nonce = inst[self].nonce
       /\ \A c \in 1..Len(calls') :
              calls'[c].nonce /= Undef => calls'[c].nonce.n < inst'[self].nonce
      ]_vars

\* A private call has failed after its request went out, and the counter
\* still counts the nonce it took.
C3_Witness ==
    /\ Failed /\ Responded
    /\ calls[last.call].private
    /\ calls[last.call].nonce = Num(StartTime)
    /\ inst[self].nonce = StartTime + 1

\* C9: no operation throws: every failure of a call comes through its callback.
C9_NoOperationThrows ==
    \A c \in Indices : calls[c].pc /= "threw"

\* C10: every call dispatches at most one request: exactly one when it is
\* public or the credential check passes, none when the check fails; and its
\* callback is invoked at most once, and exactly once by the time the call has
\* nothing in flight.
C10_OneRequestOneCallback ==
    \A c \in Indices :
        /\ calls[c].sent = IF calls[c].private /\ ~CredentialsPresent THEN 0 ELSE 1
        /\ calls[c].cbs <= 1
        /\ ~InFlight(c) => calls[c].cbs = 1

(***************************************************************************)
(* The response classifier.                                                *)
(***************************************************************************)
\* The object o has a property k, whatever it holds.
HasField(o, k) == o.t = "object" /\ \E n \in 1..Len(o.f) : o.f[n][1] = k
Structured(b) == b.t \in {"object", "array"}
GoodStatuses == {Num(200), Num(201), Num(202)}

\* The rules of the classifier in their order: which of them the outcome o
\* matches, and the result each one gives.
RuleMatches(o) ==
    <<Truthy(o.err),
      ~Truthy(o.body),
      ~Structured(o.body),
      Truthy(Get(o.body, "code")),
      Truthy(Get(o.body, "error")),
      o.status \notin GoodStatuses>>
RuleKinds ==
    <<"Transport", "EmptyResponse", "Unparseable", "ApiError", "ApiError", "HttpStatus">>
FirstMatch(o) ==
    IF \E r \in 1..Len(RuleMatches(o)) : RuleMatches(o)[r]
    THEN CHOOSE r \in 1..Len(RuleMatches(o)) :
             /\ RuleMatches(o)[r]
             /\ \A q \in 1..(r - 1) : ~RuleMatches(o)[q]
    ELSE 0
\* The kind of an error, the two unparseable kinds taken together.
KindOf(error) ==
    IF error = Null THEN "none"
    ELSE IF error.kind \in {"UnparseableHTML", "UnparseableBody"} THEN "Unparseable"
    ELSE error.kind

\* C4: the callback's error is the result of the first rule, in the fixed
\* order, that the transport outcome matches, and no error when none matches;
\* a non-structured body is UnparseableHTML when text can be extracted from it
\* and UnparseableBody otherwise; of the two ApiError rules, the error is named
\* after the code when the code rule matched, and after the error field when
\* only the error rule did.
C4_FirstMatchWins ==
    Responded =>
        LET o == last.outcome
            r == FirstMatch(o)
        IN  /\ KindOf(last.error) = IF r = 0 THEN "none" ELSE RuleKinds[r]
            /\ r = 3 => (last.error.kind = "UnparseableHTML"
                            <=> bodyText(o.body.toks) /= "")
            /\ r = 4 => last.error.name = Get(o.body, "code")
            /\ r = 5 => last.error.name = Get(o.body, "error")

\* A response that matches the code rule, the error rule and the status rule
\* has been classified by the code rule.
C4_Witness ==
    /\ Responded
    /\ last.outcome.body = BodyCodeError
    /\ last.outcome.status = Num(400)
    /\ last.error.kind = "ApiError"
    /\ last.error.name = Str("ERR001")

\* C5 as stated: a structured body with a code field, whatever the field holds
\* and whatever the status, gives an ApiError that carries the code and the
\* description.
C5_AnyCodeIsApiError ==
    (Responded /\ last.outcome.err = Null /\ HasField(last.outcome.body, "code")) =>
        /\ last.error /= Null
        /\ last.error.kind = "ApiError"
        /\ last.error.name = Get(last.outcome.body, "code")

\* C5 as amended: a structured body whose code field holds a truthy value,
\* whatever the status, gives an ApiError named after the code that carries the
\* code and the description as they came; a code field holding a falsy value
\* (0, '', null, false) counts for nothing: if the body has no truthy error
\* field either, the status alone decides between HttpStatus and success.
C5_TruthyCodeIsApiError ==
    (Responded /\ last.outcome.err = Null /\ HasField(last.outcome.body, "code")) =>
        LET body == last.outcome.body IN
        /\ Truthy(Get(body, "code")) =>
               /\ last.error /= Null
               /\ last.error.kind = "ApiError"
               /\ last.error.name = Get(body, "code")
               /\ last.error.info = <<Get(body, "code"), Get(body, "description")>>
        /\ (~Truthy(Get(body, "code")) /\ ~Truthy(Get(body, "error"))) =>
               IF last.outcome.status \in GoodStatuses
               THEN last.error = Null
               ELSE last.error /= Null /\ last.error.kind = "HttpStatus"

\* A code with status 400 has been reported as the ApiError ERR001.
C5_Witness ==
    /\ Responded
    /\ last.outcome.body = BodyCode
    /\ last.outcome.status = Num(400)
    /\ last.error.name = Str("ERR001")
    /\ last.error.info = <<Str("ERR001"), Str("Invalid nonce")>>

\* C6: a response whose body is an object with neither a code nor an error
\* field gives an HttpStatus error carrying the status code when the status is
\* none of 200, 201, 202, and no error when it is one of them.
C6_StatusDecides ==
    (Responded /\ last.outcome.err = Null /\ last.outcome.body.t = "object"
        /\ ~HasField(last.outcome.body, "code")
        /\ ~HasField(last.outcome.body, "error")) =>
        IF last.outcome.status \in GoodStatuses
        THEN last.error = Null
        ELSE /\ last.error /= Null
             /\ last.error.kind = "HttpStatus"
             /\ last.error.name = last.outcome.status
             /\ last.error.info[1] = last.outcome.status

\* Status 500 with a plain object has been reported as HttpStatus 500.
C6_Witness ==
    /\ Responded
    /\ last.outcome.body = BodyOk
    /\ last.outcome.status = Num(500)
    /\ last.error /= Null
    /\ last.error.kind = "HttpStatus"

\* C7 as stated: a call is reported as success only when the body is a
\* mapping, which is then delivered unchanged.
C7_SuccessOnlyForMapping ==
    (Responded /\ last.error = Null) =>
        /\ last.outcome.body.t = "object"
        /\ last.result = last.outcome.body

\* C7 as amended: a call is reported as success only when the body is a decoded
\* JSON object or array, which is then delivered unchanged; an absent or empty
\* body, a text or HTML body, and a decoded null are never delivered as success.
C7_SuccessOnlyForStructured ==
    (last.call > 0 /\ last.error = Null) =>
        /\ Responded
        /\ last.outcome.body.t \in {"object", "array"}
        /\ last.result = last.outcome.body

\* An array has been delivered as a success.
C7_Witness ==
    /\ Responded
    /\ last.error = Null
    /\ last.outcome.body = BodyList
    /\ last.result = BodyList

\* C8 as stated: a callback given an error is given no result.
C8_ErrorWithoutResult ==
    Failed => last.result = Undef

\* C8 as amended: a callback given an error is given, next to it, the body of
\* the response as it came: nothing for CredentialsMissing and Transport, the
\* empty body for EmptyResponse, and the body that was received for
\* UnparseableHTML, UnparseableBody, ApiError and HttpStatus.
C8_ErrorBesideBody ==
    Failed =>
        /\ last.result = last.outcome.body
        /\ last.error.kind \in {"CredentialsMissing", "Transport"} =>
               last.result = Undef
        /\ last.error.kind = "EmptyResponse" => ~Truthy(last.result)
        /\ last.error.kind \in {"UnparseableHTML", "UnparseableBody", "ApiError",
                                "HttpStatus"} => Truthy(last.result)

\* An ApiError has been delivered together with the body that holds the code.
C8_Witness ==
    /\ Failed
    /\ last.error.kind = "ApiError"
    /\ last.result = BodyCode

(***************************************************************************)
(* The request an error reports, and what a private request signs and      *)
(* sends.                                                                  *)
(***************************************************************************)
Methods == {"GET", "POST", "PUT", "DELETE"}
\* Call c is answered by this step.
Answered(c) == InFlight(c) /\ calls'[c].pc = "done" /\ last'.call = c

\* C11 as stated: every error delivered to a caller, the CredentialsMissing
\* error included, carries the method and the full URI of the failed call.
C11_EveryErrorCarriesRequest ==
    Failed =>
        /\ last.error.desc.method \in Methods
        /\ "uri" \in DOMAIN last.error.desc

\* C11 as amended: every error made from the answer to a request (Transport,
\* EmptyResponse, UnparseableHTML, UnparseableBody, ApiError, HttpStatus)
\* carries the method and the full URI of that request and, when the method
\* is not GET, also its nonce and the JSON text of its arguments; the
\* CredentialsMissing error carries no description of a request.
C11_ResponseErrorsCarryRequest ==
    /\ [](Failed /\ last.error.kind = "CredentialsMissing" =>
              last.error.desc = NoOptions)
    /\ [][\A c \in Indices :
              Answered(c) /\ last'.error /= Null =>
                  LET desc == last'.error.desc
                      options == calls[c].options
                  IN  /\ desc.method = options.method
                      /\ desc.uri = options.uri
                      /\ options.method /= "GET" =>
                             /\ desc.nonce = ToString(calls[c].nonce.n)
                             /\ desc.data = JSONstringify(options.json)]_vars

\* A failed cancelOrder has reported its DELETE with the nonce and the data.
C11_Witness ==
    /\ Failed
    /\ last.error.kind = "HttpStatus"
    /\ last.error.desc = [method |-> "DELETE",
                          uri |-> "https://api.itbit.com/v1/wallets/w1/orders/o1",
                          nonce |-> "1000",
                          data |-> "{}"]

\* The request call c has in flight, and the message signed for it: the
\* nonce, then the array [method, uri, body, nonce, timestamp].
DispatchedPrivate(c) == InFlight(c) /\ calls[c].private
SignedMessage(c) == calls[c].options.headers.Authorization.sig.of[2].of
SignedBody(c) == SignedMessage(c)[2][3]

\* What is signed for call c is what its request carries, the body aside.
SignedHeadIsTransmitted(c) ==
    LET options == calls[c].options
        message == SignedMessage(c)
    IN  /\ message[1] = toString(options.headers.XAuthNonce)
        /\ message[2][4] = toString(options.headers.XAuthNonce)
        /\ message[2][5] = toString(options.headers.XAuthTimestamp)
        /\ message[2][1] = options.method
        /\ message[2][2] = options.uri
        /\ options.headers.Authorization.sig.of[1] = options.uri

\* C12: for every dispatched private request the signing inputs are what is
\* transmitted: the signed nonce and timestamp are those of the headers, the
\* signed method and URI are those of the request, query string included,
\* and the signed body is the body of the request that is sent.
C12_SignedIsTransmitted ==
    \A c \in Indices :
        DispatchedPrivate(c) =>
            /\ SignedHeadIsTransmitted(c)
            /\ SignedBody(c) = wireBody(calls[c].options)

\* The first three characters of the instruments, written out.
FirstThree == [XBTUSD |-> "XBT", ETHEUR |-> "ETH", XB |-> "XB"]

\* C13: the request addOrder sends is a POST whose arguments hold a currency
\* equal to the first three characters of the instrument, for every
\* instrument string (the whole string when it has fewer than three).
C13_CurrencyIsInstrumentPrefix ==
    \A c \in Indices :
        InFlight(c) /\ calls[c].op = "addOrder" =>
            LET args == calls[c].options.json
            IN  /\ calls[c].options.method = "POST"
                /\ Get(args, "instrument") \in Instruments
                /\ Get(args, "currency") = Str(FirstThree[Get(args, "instrument").s])

\* Orders for a six-letter and for a two-letter instrument are in flight.
C13_Witness ==
    /\ Len(calls) = 2
    /\ \A c \in Indices : InFlight(c) /\ calls[c].op = "addOrder"
    /\ Get(calls[1].options.json, "currency") = Str("ETH")
    /\ Get(calls[2].options.json, "currency") = Str("XB")
    /\ Get(calls[2].options.json, "instrument") = Str("XB")

\* C14 as stated: the body entered in the signed message is the empty string
\* for GET and the compact JSON of the arguments for POST, PUT and DELETE.
C14_SignedBodyJsonUnlessGet ==
    \A c \in Indices :
        DispatchedPrivate(c) =>
            SignedBody(c) = IF calls[c].options.method = "GET"
                            THEN ""
                            ELSE JSONstringify(calls[c].options.json)

\* C14 as amended: the body entered in the signed message is the compact
\* JSON of the arguments for POST and PUT and the empty string for every
\* other method, DELETE included.
C14_SignedBodyJsonForPostPut ==
    \A c \in Indices :
        DispatchedPrivate(c) =>
            LET options == calls[c].options
            IN  /\ options.method \in {"POST", "PUT"} =>
                       SignedBody(c) = JSONstringify(options.json)
                /\ options.method \notin {"POST", "PUT"} => SignedBody(c) = ""
                /\ options.json = Obj(<<<<"currency", Str("XBT")>>>>) =>
                       SignedBody(c) = "{\"currency\":\"XBT\"}"

\* A cancelOrder is in flight: a DELETE signed with the empty body, next to a
\* POST signed with the JSON of its arguments.
C14_Witness ==
    /\ Len(calls) = 2
    /\ DispatchedPrivate(1) /\ DispatchedPrivate(2)
    /\ calls[1].options.method = "DELETE" /\ SignedBody(1) = ""
    /\ calls[2].options.method = "POST" /\ SignedBody(2) = "{\"currency\":\"XBT\"}"

\* The paths of the private operations for wallet w1 and order o1.
PrivatePaths ==
    [getWallets |-> "/wallets",
     getWallet |-> "/wallets/w1",
     getOrders |-> "/wallets/w1/orders",
     getOrder |-> "/wallets/w1/orders/o1",
     addOrder |-> "/wallets/w1/orders",
     cancelOrder |-> "/wallets/w1/orders/o1",
     getWalletTrades |-> "/wallets/w1/trades",
     getFundingHistory |-> "/wallets/w1/funding_history",
     cryptocurrency_withdrawals |-> "/wallets/w1/cryptocurrency_withdrawals",
     cryptocurrency_deposits |-> "/wallets/w1/cryptocurrency_deposits"]

\* The URI of call c is the private base URL and the path, with the query
\* string appended exactly for a GET with arguments.
PrivateUriAsStated(c) ==
    LET options == calls[c].options
        query == IF options.method = "GET" /\ ~isEmpty(options.json)
                 THEN "?" \o querystringStringify(options.json) ELSE ""
    IN  /\ options.uri = inst[self].serverV1.s \o PrivatePaths[calls[c].op] \o query
        /\ calls[c].op = "getOrders" =>
               options.uri = "https://api.itbit.com/v1/wallets/w1/orders"
                             \o "?instrument=XBTUSD&status=open"
        /\ calls[c].op = "getWalletTrades" =>
               options.uri = "https://api.itbit.com/v1/wallets/w1/trades"

\* C15: the URI of a private request is the private base URL and the path,
\* with the query string appended if and only if the method is GET and the
\* arguments are not empty; the body of the request is the compact JSON of
\* the arguments if and only if the method is POST or PUT, and is empty for
\* every other method.
C15_UriAndBodyByMethod ==
    \A c \in Indices :
        DispatchedPrivate(c) =>
            /\ PrivateUriAsStated(c)
            /\ wireBody(calls[c].options) =
                   IF calls[c].options.method \in {"POST", "PUT"}
                   THEN JSONstringify(calls[c].options.json) ELSE ""

(***************************************************************************)
(* Several instances in one process.                                       *)
(***************************************************************************)
\* C16: an operation invoked on an instance uses that instance's own key,
\* secret, base URLs, timeout and nonce counter, whatever instances have
\* been constructed after it.
C16_OwnInstanceState ==
    \A c \in Indices :
        /\ calls[c].private /\ calls[c].pc /= "threw" =>
               calls[c].sent = 1 <=> /\ Truthy(inst[calls[c].via].key)
                                     /\ Truthy(inst[calls[c].via].secret)
        /\ DispatchedPrivate(c) =>
               LET options == calls[c].options
                   me == inst[calls[c].via]
               IN  /\ options.headers.Authorization.key = me.key
                   /\ options.headers.Authorization.sig.key = me.secret
                   /\ options.timeout = me.timeout
                   /\ options.uri =
                          me.serverV1.s \o PrivatePaths[calls[c].op]
                          \o (IF options.method = "GET" /\ ~isEmpty(options.json)
                              THEN "?" \o querystringStringify(options.json)
                              ELSE "")
                   /\ calls[c].nonce.n < me.nonce

\* C17: over any interleaving of constructions and private calls, with the
\* clock advancing as little as it likes, a nonce is used at most once per
\* signing key and the nonces sent under one key never decrease, also when a
\* further instance is constructed with the same key.
C17_NonceOncePerKey ==
    \A a, b \in Indices :
        /\ a < b
        /\ HasNonce(a) /\ HasNonce(b)
        /\ calls[a].key = calls[b].key
        => calls[a].nonce.n < calls[b].nonce.n

(***************************************************************************)
(* Public and private requests.                                            *)
(***************************************************************************)
DispatchedPublic(c) == InFlight(c) /\ ~calls[c].private

\* C18: the timeout is applied to private calls only: every dispatched
\* private request carries the configured timeout of the client instance,
\* 20000 when none was configured, and no public request carries a timeout.
C18_TimeoutOnPrivateOnly ==
    \A c \in Indices :
        /\ DispatchedPrivate(c) =>
               /\ "timeout" \in DOMAIN calls[c].options
               /\ calls[c].options.timeout = inst[calls[c].via].timeout
               /\ calls[c].options.timeout \in {Num(20000), Num(5000)}
        /\ DispatchedPublic(c) => "timeout" \notin DOMAIN calls[c].options

\* A private request with the default timeout and a public request without
\* one are in flight.
C18_Witness ==
    /\ Len(calls) = 2
    /\ DispatchedPrivate(1)
    /\ calls[1].options.timeout = Num(20000)
    /\ DispatchedPublic(2)
    /\ DOMAIN calls[2].options = {"method", "uri", "headers", "json"}

\* This step is a public call.
NewPublicCall ==
    /\ Len(calls') = Len(calls) + 1
    /\ ~calls'[Len(calls')].private

\* C19: public calls are always GET requests, are dispatched whether or not
\* key and secret are present, carry no Authorization, timestamp or nonce
\* header and leave the nonce counter unchanged; only a private call that
\* passes the credential check consumes a nonce.
C19_PublicCallsUnsigned ==
    /\ [](\A c \in Indices :
              ~calls[c].private =>
                  /\ calls[c].sent = 1
                  /\ calls[c].nonce = Undef
                  /\ InFlight(c) =>
                         /\ calls[c].options.method = "GET"
                         /\ DOMAIN calls[c].options.headers =
                                {"UserAgent", "ContentType"})
    /\ [][/\ NewPublicCall => inst' = inst
          /\ inst' /= inst =>
                 /\ NewPrivateCall
                 /\ CredentialsPresent
                 /\ calls'[Len(calls')].sent = 1
                 /\ calls'[Len(calls')].nonce = Num(inst[self].nonce)]_vars

\* On a client without a secret a private call has been refused and a public
\* call is in flight; the counter stands where it started.
C19_Witness ==
    /\ Len(calls) = 2
    /\ ~CredentialsPresent
    /\ calls[1].private /\ calls[1].sent = 0
    /\ DispatchedPublic(2)
    /\ inst[self].nonce = StartTime

(***************************************************************************)
(* Requests in flight together.                                            *)
(***************************************************************************)
\* C20: with several requests in flight and the responses arriving in any
\* order, each callback receives the classification of its own response
\* only: the error kind and the body are those of the answer to its own
\* request, the URI and the nonce an error reports are those of its own
\* request, and the other requests are left as they were.
C20_OwnResponseOnly ==
    [][\A c \in Indices :
          InFlight(c) /\ calls'[c].pc = "done" =>
              /\ last'.call = c
              /\ KindOf(last'.error) =
                     IF FirstMatch(last'.outcome) = 0 THEN "none"
                     ELSE RuleKinds[FirstMatch(last'.outcome)]
              /\ last'.result = last'.outcome.body
              /\ last'.error /= Null =>
                     /\ last'.error.desc.method = calls[c].options.method
                     /\ last'.error.desc.uri = calls[c].options.uri
                     /\ "nonce" \in DOMAIN last'.error.desc =>
                            last'.error.desc.nonce = ToString(calls[c].nonce.n)
              /\ \A d \in Indices \ {c} : calls'[d] = calls[d]
              /\ inst' = inst]_vars

\* Two private requests were in flight together and the second was answered
\* first: the error of the first reports its own URI and nonce.
C20_Witness ==
    /\ Len(calls) = 2
    /\ calls[1].pc = "done" /\ calls[1].nonce = Num(StartTime)
    /\ calls[2].pc = "done" /\ calls[2].nonce = Num(StartTime + 1)
    /\ last.call = 1
    /\ Failed
    /\ last.error.kind = "ApiError"
    /\ last.error.desc.method = "POST"
    /\ last.error.desc.uri = "https://api.itbit.com/v1/wallets/w1/orders"
    /\ last.error.desc.nonce = ToString(StartTime)

====
